---- MODULE Spec2Model ----
(***************************************************************************)
(* Model of src/Sirius_Espectros.py (class Espectros): the spectrum file   *)
(* parser, the unit converters, the serializer's rescaling, the integrator *)
(* and the recursive folder walker.                                        *)
(*                                                                         *)
(* Numbers.  A float64 is modelled exactly as n/d * 10^e in canonical form *)
(* (gcd(n,d) = 1, d coprime to 10, n not a multiple of 10), with the IEEE  *)
(* specials as d = 0: n = 1 is +inf, n = -1 is -inf, n = 0 is nan.         *)
(* Rounding is not modelled.                                               *)
(***************************************************************************)
EXTENDS Integers, Sequences, FiniteSets, TLC

VARIABLES pc, file, ret, data, args, hist, written,
          tree, stack, espec_ret, plots, visited

vars == <<pc, file, ret, data, args, hist, written,
          tree, stack, espec_ret, plots, visited>>

(* ------------------------------ bounds --------------------------------- *)

\* longest file content, in characters
MaxFileLen == 6
\* most rows of a table handed to the converters
MaxRows == 2
\* most converter calls applied to one table
MaxOps == 2
\* deepest nesting of sub-folders below the walked folder
MaxDepth == 1

(* ------------------------------ numbers -------------------------------- *)

Abs(n) == IF n < 0 THEN -n ELSE n

Sign(n) == IF n < 0 THEN -1 ELSE IF n > 0 THEN 1 ELSE 0

RECURSIVE GCD(_, _)
GCD(a, b) == IF b = 0 THEN a ELSE GCD(b, a % b)

RECURSIVE Pow10(_)
Pow10(k) == IF k <= 0 THEN 1 ELSE 10 * Pow10(k - 1)

RECURSIVE Norm2(_)
Norm2(r) == IF r.d % 2 = 0
            THEN Norm2([n |-> r.n * 5, d |-> r.d \div 2, e |-> r.e - 1])
            ELSE r

RECURSIVE Norm5(_)
Norm5(r) == IF r.d % 5 = 0
            THEN Norm5([n |-> r.n * 2, d |-> r.d \div 5, e |-> r.e - 1])
            ELSE r

RECURSIVE Norm10(_)
Norm10(r) == IF Abs(r.n) % 10 = 0
             THEN Norm10([n |-> (Sign(r.n) * Abs(r.n)) \div 10, d |-> r.d, e |-> r.e + 1])
             ELSE r

\* the canonical float of n/d * 10^e
Canon(n, d, e) ==
    IF d = 0 THEN [n |-> Sign(n), d |-> 0, e |-> 0]
    ELSE IF n = 0 THEN [n |-> 0, d |-> 1, e |-> 0]
    ELSE LET g == GCD(Abs(n), Abs(d))
             s == Sign(n) * Sign(d)
         IN  Norm10(Norm5(Norm2([n |-> s * (Abs(n) \div g),
                                 d |-> Abs(d) \div g,
                                 e |-> e])))

F(k) == Canon(k, 1, 0)

IsNan(a) == a.d = 0 /\ a.n = 0
IsInf(a) == a.d = 0 /\ a.n # 0

FMul(a, b) == Canon(a.n * b.n, a.d * b.d, a.e + b.e)

FDiv(a, b) ==
    Canon(a.n * b.d * (IF b.n < 0 THEN -1 ELSE 1), a.d * Abs(b.n), a.e - b.e)

FAdd(a, b) ==
    IF IsNan(a) \/ IsNan(b) THEN Canon(0, 0, 0)
    ELSE IF IsInf(a) /\ IsInf(b)
         THEN (IF a.n = b.n THEN a ELSE Canon(0, 0, 0))
    ELSE IF IsInf(a) THEN a
    ELSE IF IsInf(b) THEN b
    ELSE IF a.n = 0 THEN b
    ELSE IF b.n = 0 THEN a
    ELSE LET m == IF a.e < b.e THEN a.e ELSE b.e
         IN  Canon(a.n * b.d * Pow10(a.e - m) + b.n * a.d * Pow10(b.e - m),
                   a.d * b.d, m)

FNeg(a) == [a EXCEPT !.n = -a.n]

FSub(a, b) == FAdd(a, FNeg(b))

(* ----------------------------- unit tables ----------------------------- *)

\* Espectros.energy_unit: unit name -> power of ten of the multiplier to eV
energy_unit == [u \in {"eV", "keV", "MeV", "GeV"} |->
                  CASE u = "eV"  -> Canon(1, 1, 0)
                    [] u = "keV" -> Canon(1, 1, 3)
                    [] u = "MeV" -> Canon(1, 1, 6)
                    [] u = "GeV" -> Canon(1, 1, 9)]

\* Espectros.flux_unit
flux_unit == [u \in {"ph/s/eV", "ph/s/0.1%"} |->
                CASE u = "ph/s/eV"   -> Canon(1, 1, 0)
                  [] u = "ph/s/0.1%" -> Canon(1000, 1, 0)]

(* ------------------------------- parser -------------------------------- *)

\* the characters a modelled file is made of
Chars == {"1", " ", "#", "a", "\n"}

Whitespace == {" ", "\n"}

None == [kind |-> "None"]

Raise(k) == [kind |-> k]

NdArray(rows) == [kind |-> "ndarray", rows |-> rows]

\* f.readlines(): the content cut after every newline, which stays on its line
RECURSIVE ReadLines(_, _)
ReadLines(content, cur) ==
    IF content = <<>> THEN (IF cur = <<>> THEN <<>> ELSE <<cur>>)
    ELSE IF Head(content) = "\n"
         THEN <<Append(cur, "\n")>> \o ReadLines(Tail(content), <<>>)
         ELSE ReadLines(Tail(content), Append(cur, Head(content)))

\* '#' in line
HasHash(line) == \E i \in 1..Len(line) : line[i] = "#"

\* line.split(): the maximal runs of non-whitespace characters
RECURSIVE Split(_, _)
Split(line, cur) ==
    IF line = <<>> THEN (IF cur = <<>> THEN <<>> ELSE <<cur>>)
    ELSE IF Head(line) \in Whitespace
         THEN (IF cur = <<>> THEN <<>> ELSE <<cur>>) \o Split(Tail(line), <<>>)
         ELSE Split(Tail(line), Append(cur, Head(line)))

\* float(l) accepts a token of these characters only when it is all digits
IsFloat(tok) == \A i \in 1..Len(tok) : tok[i] = "1"

RECURSIVE Digits(_, _)
Digits(tok, acc) ==
    IF tok = <<>> THEN acc ELSE Digits(Tail(tok), 10 * acc + 1)

\* float(l): the decimal value of the token
Float(tok) == F(Digits(tok, 0))

\* the loop of get_spectrum_data over the lines
RECURSIVE SpectrumLines(_)
SpectrumLines(lines) ==
    IF lines = <<>> THEN <<>>
    ELSE LET line == Head(lines)
             toks == Split(line, <<>>)
         IN  IF HasHash(line) THEN SpectrumLines(Tail(lines))
             ELSE IF \A i \in 1..Len(toks) : IsFloat(toks[i])
                  THEN <<[i \in 1..Len(toks) |-> Float(toks[i])]>>
                       \o SpectrumLines(Tail(lines))
                  ELSE SpectrumLines(Tail(lines))

\* np.array(list of rows): a 2-D array when the rows have one length; for rows
\* of different lengths numpy >= 1.24 raises ValueError and older numpy builds
\* a 1-D array of list objects.  The set of outcomes the installed numpy allows.
NpArray(rows) ==
    IF \A i \in 1..Len(rows) : Len(rows[i]) = Len(rows[1])
    THEN {NdArray(rows)}
    ELSE {Raise("ValueError"), [kind |-> "objarray", rows |-> rows]}

\* get_spectrum_data without the except clause of lines 32-33
get_spectrum_data_propagating(readable, content) ==
    IF ~readable THEN {Raise("IOError")}
    ELSE LET spectrum_lines == SpectrumLines(ReadLines(content, <<>>))
         IN  IF spectrum_lines # <<>> THEN NpArray(spectrum_lines) ELSE {None}

\* get_spectrum_data(filename): the outcomes for a path that can (readable) or
\* cannot be opened and read, holding `content`
get_spectrum_data(readable, content) ==
    IF ~readable THEN {None}
    ELSE LET spectrum_lines == SpectrumLines(ReadLines(content, <<>>))
         IN  IF spectrum_lines # <<>> THEN NpArray(spectrum_lines) ELSE {None}

RECURSIVE SeqsUpTo(_, _)
SeqsUpTo(S, n) ==
    IF n = 0 THEN {<<>>}
    ELSE LET shorter == SeqsUpTo(S, n - 1)
         IN  shorter \cup {Append(s, x) : s \in {t \in shorter : Len(t) = n - 1}, x \in S}

FileContents == SeqsUpTo(Chars, MaxFileLen)

(* ------------------------------ converter ------------------------------ *)

\* data[:, j] can be taken: a 2-D array with more than j columns (j from 0)
HasCol(d, j) == d.kind = "ndarray" /\ Len(d.rows[1]) > j

\* what data[:, j] raises when it cannot be taken
ColError(d) == IF d.kind = "None" THEN Raise("TypeError") ELSE Raise("IndexError")

\* data[:, j]
Col(d, j) == [i \in 1..Len(d.rows) |-> d.rows[i][j + 1]]

\* data[:, j] = column
SetCol(d, j, column) ==
    [d EXCEPT !.rows = [i \in 1..Len(d.rows) |-> [d.rows[i] EXCEPT ![j + 1] = column[i]]]]

\* bandwidth_to_energy looking its flux unit up with a default of 1
bandwidth_to_energy_default_unit(d, energy_u, flux_u, current) ==
    IF ~HasCol(d, 0) THEN [ret |-> ColError(d), data |-> d]
    ELSE IF energy_u \notin DOMAIN energy_unit THEN [ret |-> Raise("KeyError"), data |-> d]
    ELSE IF ~HasCol(d, 1) THEN [ret |-> ColError(d), data |-> d]
    ELSE LET mult == IF flux_u \in DOMAIN flux_unit THEN flux_unit[flux_u] ELSE F(1)
             energy_data == [i \in 1..Len(d.rows) |->
                               FMul(Col(d, 0)[i], energy_unit[energy_u])]
             flux_ev_data == [i \in 1..Len(d.rows) |->
                               FDiv(FDiv(FMul(Col(d, 1)[i], mult), Col(d, 0)[i]),
                                    F(current))]
             new == SetCol(SetCol(d, 0, energy_data), 1, flux_ev_data)
         IN  [ret |-> new, data |-> new]

\* bandwidth_to_energy(data, energy_u, flux_u, current): what the call returns
\* or raises (ret) and the caller's array after it (data)
bandwidth_to_energy(d, energy_u, flux_u, current) ==
    IF ~HasCol(d, 0) THEN [ret |-> ColError(d), data |-> d]
    ELSE IF energy_u \notin DOMAIN energy_unit THEN [ret |-> Raise("KeyError"), data |-> d]
    ELSE IF ~HasCol(d, 1) THEN [ret |-> ColError(d), data |-> d]
    ELSE IF flux_u \notin DOMAIN flux_unit THEN [ret |-> Raise("KeyError"), data |-> d]
    ELSE LET energy_data == [i \in 1..Len(d.rows) |->
                               FMul(Col(d, 0)[i], energy_unit[energy_u])]
             flux_ev_data == [i \in 1..Len(d.rows) |->
                               FDiv(FDiv(FMul(Col(d, 1)[i], flux_unit[flux_u]),
                                         Col(d, 0)[i]),
                                    F(current))]
             new == SetCol(SetCol(d, 0, energy_data), 1, flux_ev_data)
         IN  [ret |-> new, data |-> new]

\* normalize_spectrum with the flux line of bandwidth_to_energy
normalize_spectrum_per_bandwidth(d, energy_u, flux_u, current) ==
    IF ~HasCol(d, 0) THEN [ret |-> ColError(d), data |-> d]
    ELSE IF energy_u \notin DOMAIN energy_unit THEN [ret |-> Raise("KeyError"), data |-> d]
    ELSE IF ~HasCol(d, 1) THEN [ret |-> ColError(d), data |-> d]
    ELSE IF flux_u \notin DOMAIN flux_unit THEN [ret |-> Raise("KeyError"), data |-> d]
    ELSE LET energy_data == [i \in 1..Len(d.rows) |->
                               FMul(Col(d, 0)[i], energy_unit[energy_u])]
             flux_ev_data == [i \in 1..Len(d.rows) |->
                               FDiv(FDiv(FMul(Col(d, 1)[i], flux_unit[flux_u]),
                                         Col(d, 0)[i]),
                                    F(current))]
             new == SetCol(SetCol(d, 0, energy_data), 1, flux_ev_data)
         IN  [ret |-> new, data |-> new]

\* normalize_spectrum(data, energy_u, flux_u, current)
normalize_spectrum(d, energy_u, flux_u, current) ==
    IF ~HasCol(d, 0) THEN [ret |-> ColError(d), data |-> d]
    ELSE IF energy_u \notin DOMAIN energy_unit THEN [ret |-> Raise("KeyError"), data |-> d]
    ELSE IF ~HasCol(d, 1) THEN [ret |-> ColError(d), data |-> d]
    ELSE IF flux_u \notin DOMAIN flux_unit THEN [ret |-> Raise("KeyError"), data |-> d]
    ELSE LET energy_data == [i \in 1..Len(d.rows) |->
                               FMul(Col(d, 0)[i], energy_unit[energy_u])]
             flux_ev_data == [i \in 1..Len(d.rows) |->
                               FDiv(FMul(Col(d, 1)[i], flux_unit[flux_u]), F(current))]
             new == SetCol(SetCol(d, 0, energy_data), 1, flux_ev_data)
         IN  [ret |-> new, data |-> new]

(* ------------------------------ serializer ----------------------------- *)

\* write_data_file(data, filename, energy_u, flux_u, current): what the call
\* returns or raises (ret) and the file it wrote (file): the two header labels
\* and the rescaled (energy, flux) of every row.  The %.NE text of a value is
\* not modelled.
write_data_file(d, energy_u, flux_u, current) ==
    IF ~HasCol(d, 0) THEN [ret |-> ColError(d), file |-> None]
    ELSE IF energy_u \notin DOMAIN energy_unit THEN [ret |-> Raise("KeyError"), file |-> None]
    ELSE IF ~HasCol(d, 1) THEN [ret |-> ColError(d), file |-> None]
    ELSE IF flux_u \notin DOMAIN flux_unit THEN [ret |-> Raise("KeyError"), file |-> None]
    ELSE LET energy_data == [i \in 1..Len(d.rows) |->
                               FDiv(Col(d, 0)[i], energy_unit[energy_u])]
             flux_ev_data == [i \in 1..Len(d.rows) |->
                               FMul(FMul(Col(d, 1)[i], flux_unit[flux_u]), F(current))]
         IN  [ret |-> None,
              file |-> [kind |-> "file",
                        energy_label |-> <<"#Energy", energy_u>>,
                        flux_label |-> <<"Flux", flux_u, current>>,
                        rows |-> [i \in 1..Len(d.rows) |->
                                    <<energy_data[i], flux_ev_data[i]>>]]]

(* ------------------------------ integrator ----------------------------- *)

\* one Simpson panel over samples i, i+1, i+2 (from 1) of unevenly spaced x
SimpsonPanel(x, y, i) ==
    LET h0 == FSub(x[i + 1], x[i])
        h1 == FSub(x[i + 2], x[i + 1])
        hsum == FAdd(h0, h1)
        hprod == FMul(h0, h1)
        h0divh1 == FDiv(h0, h1)
    IN  FMul(FDiv(hsum, F(6)),
             FAdd(FAdd(FMul(y[i], FSub(F(2), FDiv(F(1), h0divh1))),
                       FDiv(FMul(FMul(y[i + 1], hsum), hsum), hprod)),
                  FMul(y[i + 2], FSub(F(2), h0divh1))))

\* scipy's _basic_simpson(y, start, stop, x): the panels that start at the
\* samples start, start+2, ... below stop (from 0)
RECURSIVE BasicSimpson(_, _, _, _)
BasicSimpson(x, y, start, stop) ==
    IF start >= stop THEN F(0)
    ELSE FAdd(SimpsonPanel(x, y, start + 1), BasicSimpson(x, y, start + 2, stop))

\* scipy.integrate.simps(y=..., x=...) of the scipy releases that export simps
\* with the default even='avg' (before 1.11), dividing as IEEE does: for an even
\* number of samples, the mean of Simpson on the first N-1 samples plus a
\* trapezoid on the last interval, and a trapezoid on the first interval plus
\* Simpson on the last N-1 samples.  A single sample integrates to 0.
simps(y, x) ==
    LET N == Len(y)
        Trapezoid(i) == FMul(FMul(Canon(5, 1, -1), FSub(x[i + 1], x[i])),
                             FAdd(y[i + 1], y[i]))
    IN  IF N % 2 = 0
        THEN LET val == FAdd(Trapezoid(N - 1), Trapezoid(1))
                 result == FAdd(BasicSimpson(x, y, 0, N - 3),
                                BasicSimpson(x, y, 1, N - 2))
             IN  FAdd(FDiv(result, F(2)), FDiv(val, F(2)))
        ELSE BasicSimpson(x, y, 0, N - 2)

\* integrate_spectrum(data, energy_u, flux_u, current)
integrate_spectrum(d, energy_u, flux_u, current) ==
    IF ~HasCol(d, 0) THEN ColError(d)
    ELSE IF energy_u \notin DOMAIN energy_unit THEN Raise("KeyError")
    ELSE IF ~HasCol(d, 1) THEN ColError(d)
    ELSE IF flux_u \notin DOMAIN flux_unit THEN Raise("KeyError")
    ELSE LET energy_data == [i \in 1..Len(d.rows) |->
                               FMul(Col(d, 0)[i], energy_unit[energy_u])]
             flux_ev_data == [i \in 1..Len(d.rows) |->
                               FDiv(FMul(Col(d, 1)[i], flux_unit[flux_u]), F(current))]
         IN  [kind |-> "float", value |-> simps(flux_ev_data, energy_data)]

(* ------------------------------- inputs -------------------------------- *)

\* the column values of the tables handed to the converters
Energies == {F(0), F(1), F(2)}
Fluxes == {F(1), F(2)}

Rows == {<<en, fl>> : en \in Energies, fl \in Fluxes}

\* tables of 1..MaxRows rows of two columns
Tables == {NdArray(rows) : rows \in SeqsUpTo(Rows, MaxRows) \ {<<>>}}

\* the unit keys callers pass: every key of the tables and one that is in neither
EnergyKeys == DOMAIN energy_unit \cup {"meV"}
FluxKeys == DOMAIN flux_unit \cup {"meV"}
Currents == {0, 1, 2}

(* --------------------------- specification ----------------------------- *)

Init ==
    /\ pc = "start"
    /\ file = [readable |-> TRUE, content |-> <<>>]
    /\ ret = None
    /\ data = None
    /\ args = [energy_u |-> "eV", flux_u |-> "ph/s/eV", current |-> 1]
    /\ hist = <<>>
    /\ written = None
    /\ tree = <<>>
    /\ stack = <<>>
    /\ espec_ret = None
    /\ plots = <<>>
    /\ visited = {}

\* data = espectros.get_spectrum_data(file)
ParseFile ==
    /\ pc = "start"
    /\ \E readable \in BOOLEAN, content \in FileContents :
         /\ readable \/ content = <<>>
         /\ file' = [readable |-> readable, content |-> content]
         /\ \E out \in get_spectrum_data(readable, content) :
              /\ ret' = out
              /\ data' = out
    /\ pc' = "parsed"
    /\ UNCHANGED <<args, hist, written, tree, stack, espec_ret, plots, visited>>

Call(op, r) == [op |-> op, in |-> data, ret |-> r]

\* the caller builds a table and fixes the units and current of its pipeline
Load ==
    /\ pc = "start"
    /\ data' \in Tables
    /\ args' \in [energy_u : EnergyKeys, flux_u : FluxKeys, current : Currents]
    /\ pc' = "loaded"
    /\ UNCHANGED <<file, ret, hist, written, tree, stack, espec_ret, plots, visited>>

\* after a converter call the pipeline goes on unless the call raised
After(r) == IF r.kind = "ndarray" /\ Len(hist) + 1 < MaxOps THEN "loaded" ELSE "done"

\* data = espectros.bandwidth_to_energy(data, ...)
BandwidthToEnergy ==
    /\ pc = "loaded"
    /\ LET r == bandwidth_to_energy(data, args.energy_u, args.flux_u, args.current)
       IN  /\ ret' = r.ret
           /\ data' = r.data
           /\ hist' = Append(hist, Call("bandwidth_to_energy", r.ret))
           /\ pc' = After(r.ret)
    /\ UNCHANGED <<file, args, written, tree, stack, espec_ret, plots, visited>>

\* data = espectros.normalize_spectrum(data, ...)
NormalizeSpectrum ==
    /\ pc = "loaded"
    /\ LET r == normalize_spectrum(data, args.energy_u, args.flux_u, args.current)
       IN  /\ ret' = r.ret
           /\ data' = r.data
           /\ hist' = Append(hist, Call("normalize_spectrum", r.ret))
           /\ pc' = After(r.ret)
    /\ UNCHANGED <<file, args, written, tree, stack, espec_ret, plots, visited>>

\* espectros.write_data_file(data, filename, ...)
WriteDataFile ==
    /\ pc = "loaded"
    /\ LET r == write_data_file(data, args.energy_u, args.flux_u, args.current)
       IN  /\ ret' = r.ret
           /\ written' = r.file
           /\ hist' = Append(hist, Call("write_data_file", r.ret))
    /\ pc' = "done"
    /\ UNCHANGED <<file, data, args, tree, stack, espec_ret, plots, visited>>

\* integrated_spectrum = espectros.integrate_spectrum(data, ...)
IntegrateSpectrum ==
    /\ pc = "loaded"
    /\ LET r == integrate_spectrum(data, args.energy_u, args.flux_u, args.current)
       IN  /\ ret' = r
           /\ hist' = Append(hist, Call("integrate_spectrum", r))
    /\ pc' = "done"
    /\ UNCHANGED <<file, data, args, written, tree, stack, espec_ret, plots, visited>>

Next ==
    \/ ParseFile
    \/ Load
    \/ BandwidthToEnergy
    \/ NormalizeSpectrum
    \/ WriteDataFile
    \/ IntegrateSpectrum

Spec == Init /\ [][Next]_vars

(* ---------------------------- folder walker ---------------------------- *)

Absent == [kind |-> "absent"]

\* the entry names of a folder, in the order sorted() gives them
NameOrder == <<"a", "b", "c">>

\* the file contents found in the walked folders: a two-column spectrum, a
\* text file, a one-column file, and a file whose rows differ in length
WalkContents == {<<"1", " ", "1">>, <<"a">>, <<"1">>, <<"1", " ", "1", "\n", "1">>}

FileNodes == {[kind |-> "file", content |-> c] : c \in WalkContents}

\* a folder holding the entries that are not absent
Folder(a, b, c) ==
    LET all == [n \in {"a", "b", "c"} |->
                  CASE n = "a" -> a [] n = "b" -> b [] n = "c" -> c]
    IN  [kind |-> "dir",
         entries |-> [n \in {m \in {"a", "b", "c"} : all[m].kind # "absent"} |-> all[n]]]

\* the folders with sub-folders nested at most `depth` deep: "a" and "c" are
\* files or absent, "b" is a sub-folder or absent
RECURSIVE DirNodes(_)
DirNodes(depth) ==
    {Folder(a, b, c) :
        a \in FileNodes \cup {Absent},
        b \in (IF depth = 0 THEN {} ELSE DirNodes(depth - 1)) \cup {Absent},
        c \in FileNodes \cup {Absent}}

\* what the walked path can be: a folder, a file, or nothing
Trees == DirNodes(MaxDepth) \cup FileNodes \cup {Absent}

\* the node at `path` below `node`
RECURSIVE Lookup(_, _)
Lookup(node, path) ==
    IF path = <<>> THEN node
    ELSE IF node.kind = "dir" /\ Head(path) \in DOMAIN node.entries
         THEN Lookup(node.entries[Head(path)], Tail(path))
         ELSE Absent

\* os.path.isdir(path)
isdir(path) == Lookup(tree, path).kind = "dir"

\* sorted(os.listdir(folder))
listdir(path) ==
    SelectSeq(NameOrder, LAMBDA n : n \in DOMAIN Lookup(tree, path).entries)

\* os.path.join(folder, file)
join(folder, name) == Append(folder, name)

\* get_spectrum_data(filepath) on a path of the tree: open() fails on a folder
\* and on a missing path
ParsePath(path) ==
    LET node == Lookup(tree, path)
    IN  IF node.kind = "file" THEN get_spectrum_data(TRUE, node.content)
        ELSE get_spectrum_data(FALSE, <<>>)

\* a dict, as its items in insertion order
Dict(items) == [kind |-> "dict", items |-> items]

Keys(d) == {d.items[i].key : i \in 1..Len(d.items)}

\* d[k] = v: a present key keeps its place
DictSet(d, k, v) ==
    IF k \in Keys(d)
    THEN Dict([i \in 1..Len(d.items) |->
                 IF d.items[i].key = k THEN [key |-> k, value |-> v] ELSE d.items[i]])
    ELSE Dict(Append(d.items, [key |-> k, value |-> v]))

RECURSIVE UpdateItems(_, _)
UpdateItems(d, items) ==
    IF items = <<>> THEN d
    ELSE UpdateItems(DictSet(d, Head(items).key, Head(items).value), Tail(items))

\* the merge of the child's collection left out
DictUpdateDropped(d, other) == d

\* espec.update(other)
DictUpdate(d, other) == UpdateItems(d, other.items)

\* the frame of a call plot_folder_spectrum(folder, ..., recursive_check), at its
\* first line
CallFrame(folder, recursive_check) ==
    [folder |-> folder, recursive_check |-> recursive_check, phase |-> "enter",
     files |-> <<>>, i |-> 0, espec |-> Dict(<<>>)]

\* the recursive call handing its own recursive_check down
ChildCallPlotting(filepath) == CallFrame(filepath, TRUE)

\* the recursive call of line 149
ChildCall(filepath) == CallFrame(filepath, FALSE)

\* plot_spectrum_data(datas, title=title) with its default units and current:
\* the figure drawn.  by and seen are not part of the figure: the depth of the
\* call that drew it and the entries whose loop body had run by then.
plot_spectrum_data(datas, title, by, seen) ==
    [title |-> title,
     xlabel |-> <<"Energy", "keV">>,
     ylabel |-> <<"Flux", "ph/s/eV", 350>>,
     series |-> [k \in 1..Len(datas.items) |->
                   LET d == datas.items[k].value
                   IN  [label |-> datas.items[k].key,
                        energy_data |-> [i \in 1..Len(d.rows) |->
                                           FDiv(Col(d, 0)[i], energy_unit["keV"])],
                        flux_ev_data |-> [i \in 1..Len(d.rows) |->
                                            FMul(FMul(Col(d, 1)[i], flux_unit["ph/s/eV"]),
                                                 F(350))]]],
     by |-> by,
     seen |-> seen]

Top == stack[Len(stack)]

SetTop(f) == [stack EXCEPT ![Len(stack)] = f]

Pop == SubSeq(stack, 1, Len(stack) - 1)

WalkInit ==
    /\ pc = "walking"
    /\ file = [readable |-> TRUE, content |-> <<>>]
    /\ ret = None
    /\ data = None
    /\ args \in [spectrum_type : {"bandwidth", "energy"}, energy_u : {"eV", "meV"},
                 flux_u : {"ph/s/0.1%"}, current : {1}]
    /\ hist = <<>>
    /\ written = None
    /\ tree \in Trees
    /\ stack = <<CallFrame(<<>>, TRUE)>>
    /\ espec_ret = None
    /\ plots = <<>>
    /\ visited = {}

\* lines 140-144: a path that is no folder returns at once, with no value
EnterFolder ==
    /\ pc = "walking"
    /\ Top.phase = "enter"
    /\ IF ~isdir(Top.folder)
       THEN /\ stack' = <<>>
            /\ espec_ret' = IF Len(stack) = 1 THEN None ELSE Raise("TypeError")
            /\ pc' = IF Len(stack) = 1 THEN "done" ELSE "raised"
       ELSE /\ stack' = SetTop([Top EXCEPT !.phase = "loop", !.i = 1,
                                           !.files = listdir(Top.folder)])
            /\ UNCHANGED <<espec_ret, pc>>
    /\ UNCHANGED <<file, ret, data, args, hist, written, tree, plots, visited>>

\* lines 145-149: the next entry; a sub-folder is walked first
NextEntry ==
    /\ pc = "walking"
    /\ Top.phase = "loop"
    /\ Top.i <= Len(Top.files)
    /\ LET filepath == join(Top.folder, Top.files[Top.i])
       IN  IF isdir(filepath)
           THEN stack' = Append(SetTop([Top EXCEPT !.phase = "await"]), ChildCall(filepath))
           ELSE stack' = SetTop([Top EXCEPT !.phase = "parse"])
    /\ UNCHANGED <<pc, file, ret, data, args, hist, written, tree, espec_ret, plots,
                   visited>>

\* lines 151-159: parse the entry, convert it, store it under its name; an
\* exception leaves every call on the stack
ParseEntry ==
    /\ pc = "walking"
    /\ Top.phase = "parse"
    /\ LET name == Top.files[Top.i]
           filepath == join(Top.folder, name)
       IN  /\ visited' = visited \cup {filepath}
           /\ \E parsed \in ParsePath(filepath) :
                LET r == IF args.spectrum_type = "bandwidth"
                         THEN bandwidth_to_energy(parsed, args.energy_u, args.flux_u,
                                                  args.current)
                         ELSE normalize_spectrum(parsed, args.energy_u, args.flux_u,
                                                 args.current)
                    raised == IF parsed.kind = "ValueError" THEN parsed ELSE r.ret
                IN  IF parsed.kind = "None"
                    THEN /\ stack' = SetTop([Top EXCEPT !.phase = "loop", !.i = @ + 1])
                         /\ UNCHANGED <<pc, espec_ret>>
                    ELSE IF raised.kind # "ndarray"
                    THEN /\ stack' = <<>>
                         /\ espec_ret' = raised
                         /\ pc' = "raised"
                    ELSE /\ stack' = SetTop([Top EXCEPT !.phase = "loop", !.i = @ + 1,
                                                        !.espec = DictSet(@, name, r.ret)])
                         /\ UNCHANGED <<pc, espec_ret>>
    /\ UNCHANGED <<file, ret, data, args, hist, written, tree, plots>>

\* lines 161-164, and line 149 in the caller: plot if asked to and there is
\* something to plot, return espec; the caller merges it into its own
LeaveFolder ==
    /\ pc = "walking"
    /\ Top.phase = "loop"
    /\ Top.i > Len(Top.files)
    /\ plots' = IF Top.espec.items # <<>> /\ Top.recursive_check
                THEN Append(plots, plot_spectrum_data(Top.espec, Top.folder,
                                                      Len(stack), visited))
                ELSE plots
    /\ IF Len(stack) = 1
       THEN /\ stack' = <<>>
            /\ espec_ret' = Top.espec
            /\ pc' = "done"
       ELSE /\ stack' = [Pop EXCEPT ![Len(stack) - 1] =
                           [@ EXCEPT !.phase = "parse",
                                     !.espec = DictUpdate(@, Top.espec)]]
            /\ UNCHANGED <<espec_ret, pc>>
    /\ UNCHANGED <<file, ret, data, args, hist, written, tree, visited>>

WalkNext ==
    \/ EnterFolder
    \/ NextEntry
    \/ ParseEntry
    \/ LeaveFolder

WalkSpec == WalkInit /\ [][WalkNext]_vars

(* ------------------------------- claims -------------------------------- *)

IsTable(r) == r.kind \in {"ndarray", "objarray"}

Last(path) == path[Len(path)]

\* C1: for every content of a readable file, get_spectrum_data returns exactly
\* the rows of the lines that hold no '#' and whose tokens all convert to
\* float, in file order (None when there is no such row); it never fails.
C1_ParserReturnsExactRows ==
    (pc = "parsed" /\ file.readable) =>
        LET rows == SpectrumLines(ReadLines(file.content, <<>>))
        IN  IF rows = <<>> THEN ret = None ELSE IsTable(ret) /\ ret.rows = rows

\* C2 as claimed: a file that cannot be opened makes get_spectrum_data fail
\* with an I/O error, a value different from the None of an empty parse.
C2_IOFailureSurfaced ==
    (pc = "parsed" /\ ~file.readable) => (ret.kind = "IOError" /\ ret # None)

\* C2 as amended: a file that cannot be opened makes get_spectrum_data return
\* None, the value it also returns for a readable file without a valid row; no
\* I/O error reaches the caller.
C2_IOFailureReturnsNone ==
    pc = "parsed" =>
        /\ ~file.readable => ret = None
        /\ (file.readable /\ SpectrumLines(ReadLines(file.content, <<>>)) = <<>>)
              => ret = None

C2_Witness == pc = "parsed" /\ ~file.readable /\ ret.kind = "None"

ValidUnits == args.energy_u \in DOMAIN energy_unit /\ args.flux_u \in DOMAIN flux_unit

\* C3: normalize_spectrum followed by write_data_file with the same units and
\* current (> 0) writes the original energy and flux of every row.
C3_WriteInvertsNormalize ==
    (/\ pc = "done"
     /\ Len(hist) = 2
     /\ hist[1].op = "normalize_spectrum"
     /\ hist[2].op = "write_data_file"
     /\ written.kind = "file"
     /\ args.current > 0)
    => \A i \in 1..Len(written.rows) :
          written.rows[i] = <<hist[1].in.rows[i][1], hist[1].in.rows[i][2]>>

IdentityArgs == args = [energy_u |-> "eV", flux_u |-> "ph/s/eV", current |-> 1]

Converters == {"normalize_spectrum", "bandwidth_to_energy"}

\* C4 as claimed: with eV, ph/s/eV and current 1, normalize_spectrum and
\* bandwidth_to_energy each return their input unchanged.
C4_BothIdentity ==
    IdentityArgs =>
        \A k \in 1..Len(hist) : hist[k].op \in Converters => hist[k].ret = hist[k].in

\* C4 as amended: with eV, ph/s/eV and current 1, normalize_spectrum returns
\* its input unchanged, any number of times; bandwidth_to_energy leaves column
\* 0 unchanged and replaces column 1 by column 1 divided by column 0.
C4_NormalizeIdentity ==
    IdentityArgs =>
        \A k \in 1..Len(hist) :
            /\ hist[k].op = "normalize_spectrum" => hist[k].ret = hist[k].in
            /\ hist[k].op = "bandwidth_to_energy" =>
                  /\ hist[k].ret.kind = "ndarray"
                  /\ Len(hist[k].ret.rows) = Len(hist[k].in.rows)
                  /\ \A i \in 1..Len(hist[k].in.rows) :
                        /\ hist[k].ret.rows[i][1] = hist[k].in.rows[i][1]
                        /\ hist[k].ret.rows[i][2] =
                              FDiv(hist[k].in.rows[i][2], hist[k].in.rows[i][1])
            /\ (hist[k].op \in Converters /\ k = Len(hist)) => data = hist[k].ret

C4_Witness ==
    /\ IdentityArgs
    /\ Len(hist) = 2
    /\ hist[1].op = "normalize_spectrum"
    /\ hist[2].op = "bandwidth_to_energy"
    /\ hist[2].ret # hist[2].in

\* C8: bandwidth_to_energy and normalize_spectrum raise the unknown-unit error
\* (KeyError) whenever energy_u or flux_u is no key of its unit table, and the
\* caller's table is then what it was before the call.
C8_UnknownUnitFails ==
    \A k \in 1..Len(hist) :
        (hist[k].op \in Converters /\ ~ValidUnits) =>
            /\ hist[k].ret = Raise("KeyError")
            /\ k = Len(hist)
            /\ data = hist[k].in

C8_Witness ==
    /\ Len(hist) = 1
    /\ hist[1].op = "bandwidth_to_energy"
    /\ args.energy_u \in DOMAIN energy_unit
    /\ args.flux_u \notin DOMAIN flux_unit
    /\ ret = Raise("KeyError")
    /\ data = hist[1].in

\* C9: every table get_spectrum_data returns has rows of one length, and that
\* length is at least 2.
C9_TableShape ==
    (pc = "parsed" /\ IsTable(ret)) =>
        \A i \in 1..Len(ret.rows) :
            Len(ret.rows[i]) = Len(ret.rows[1]) /\ Len(ret.rows[i]) >= 2

\* C10: integrate_spectrum on a table of fewer than 2 rows fails with
\* InsufficientData and returns no number.
C10_InsufficientData ==
    \A k \in 1..Len(hist) :
        (hist[k].op = "integrate_spectrum" /\ ValidUnits /\ Len(hist[k].in.rows) < 2) =>
            hist[k].ret.kind = "InsufficientData"

\* every path below the walked folder
RECURSIVE EntryPaths(_, _)
EntryPaths(node, prefix) ==
    IF node.kind # "dir" THEN {}
    ELSE UNION {{Append(prefix, n)} \cup EntryPaths(node.entries[n], Append(prefix, n)) :
                  n \in DOMAIN node.entries}

Finished == pc \in {"done", "raised"}

\* C5: plot_folder_spectrum on a path that is no folder returns an empty
\* mapping and raises nothing.
C5_NonFolderYieldsEmptyDict ==
    (Finished /\ tree.kind # "dir") => espec_ret = Dict(<<>>)

\* C6: in one top-level plot_folder_spectrum call the Plotter runs at most
\* once, only from the top-level call, only after the loop body has run for
\* every entry at every depth, with the walked folder as title, and, when the
\* call returns, exactly when the returned collection is non-empty.
C6_PlotOnceAtTopLevel ==
    /\ Len(plots) <= 1
    /\ \A k \in 1..Len(plots) :
          /\ plots[k].by = 1
          /\ plots[k].title = <<>>
          /\ EntryPaths(tree, <<>>) \subseteq plots[k].seen
          /\ plots[k].series # <<>>
    /\ (pc = "done" /\ espec_ret.kind = "dict") =>
          /\ Len(plots) = 1 <=> espec_ret.items # <<>>
          /\ \A k \in 1..Len(plots) :
                [i \in 1..Len(plots[k].series) |-> plots[k].series[i].label]
                  = [i \in 1..Len(espec_ret.items) |-> espec_ret.items[i].key]
    /\ pc = "raised" => plots = <<>>

C6_Witness ==
    /\ pc = "done"
    /\ Len(plots) = 1
    /\ <<"b", "c">> \in plots[1].seen
    /\ "c" \in Keys(espec_ret)
    /\ Lookup(tree, <<"c">>).kind = "absent"

\* C7: the collection plot_folder_spectrum returns has as keys exactly the
\* base names of the entries, at any depth, for which get_spectrum_data
\* returns a table; entries it returns None for add no key and raise nothing.
C7_KeysAreParsedFiles ==
    (pc = "done" /\ espec_ret.kind = "dict") =>
        Keys(espec_ret) =
            {Last(p) : p \in {q \in EntryPaths(tree, <<>>) :
                                \E out \in ParsePath(q) : IsTable(out)}}

C7_Witness ==
    /\ pc = "done"
    /\ espec_ret.kind = "dict"
    /\ Keys(espec_ret) = {"a"}
    /\ Lookup(tree, <<"a">>).kind = "absent"
    /\ Lookup(tree, <<"b", "a">>).kind = "file"
    /\ Lookup(tree, <<"b", "c">>).kind = "file"
    /\ Lookup(tree, <<"c">>).kind = "file"

====
